---- MODULE Spec2Model ----
(***************************************************************************)
(* The restJson1 protocol binding of smithy-aws-core:                      *)
(*   aio/protocols.py  AWSErrorIdentifier.identify,                        *)
(*                     AWSJSONDocument.discriminator                       *)
(*   traits.py         RestJson1Trait.__init__, SigV4Trait                  *)
(*                                                                         *)
(* Python values are tagged records.  A str is the sequence of its         *)
(* characters, so that iterating a str (which Python allows wherever a     *)
(* Sequence is expected) and splitting an error code are computed.         *)
(* Assertions are modelled as enabled (the interpreter's default mode).    *)
(***************************************************************************)
EXTENDS Naturals, Sequences, FiniteSets

VARIABLES
    response,     \* the HTTPResponse handed to identify: [fields |-> name -> values]
    operation,    \* the APIOperation handed to identify: [namespace |-> str]
    idOutcome,    \* outcome of identify on (operation, response), or Pending
    document,     \* the AWSJSONDocument instance under decode, or NoDocument
    accesses,     \* outcomes of the discriminator accesses on that instance, in order
    lastRead,     \* result of the last other read operation on the document
    arg,          \* the caller's object passed to RestJson1Trait(value); lists in it are mutable
    trait,        \* the RestJson1Trait under construction/constructed, or NoTrait
    lastAssign,   \* outcome of the last attempted attribute assignment on the trait
    mutations,    \* number of caller-side list mutations since construction
    sigValue,     \* the value passed to SigV4Trait(value)
    sigv4,        \* the SigV4Trait construction outcome, or NoTrait
    sigName       \* result of the last read of SigV4Trait.name

vars == <<response, operation, idOutcome, document, accesses, lastRead,
          arg, trait, lastAssign, mutations, sigValue, sigv4, sigName>>

idVars    == <<response, operation, idOutcome>>
docVars   == <<document, accesses, lastRead>>
traitVars == <<arg, trait, lastAssign, mutations, sigValue, sigv4, sigName>>

(***************************************************************************)
(* Bounds of the model.                                                    *)
(***************************************************************************)
MaxValues    == 2   \* values carried by one header field
MaxAccesses  == 3   \* discriminator accesses recorded per document instance
MaxMutations == 2   \* caller-side appends to a list after it was passed in

(***************************************************************************)
(* Python values.                                                          *)
(***************************************************************************)
NoneV      == [t |-> "none"]
Bool(b)    == [t |-> "bool", b |-> b]
Int(i)     == [t |-> "int", i |-> i]
Str(cs)    == [t |-> "str", cs |-> cs]
List(xs)   == [t |-> "list", items |-> xs]
\* A missing key of a mapping (not a Python value).
Absent     == [t |-> "absent"]

IsStr(v)      == v.t = "str"
IsMapping(v)  == v.t = "map"
IsSequence(v) == v.t \in {"str", "list"}

NoDocument == [t |-> "nodocument"]
NoTrait    == [status |-> "unbuilt"]

\* Outcomes of a call.
Return(v)  == [kind |-> "return", value |-> v]
Raise(e)   == [kind |-> "raise", error |-> e]
\* An exception: its class and the parts of its message.
Error(type, message) == [type |-> type, message |-> message]
Pending    == [kind |-> "pending"]

ShapeID(namespace, name) == [t |-> "ShapeID", namespace |-> namespace, name |-> name]

(***************************************************************************)
(* String helpers.                                                         *)
(***************************************************************************)
\* Index of the first occurrence of character ch in cs, or 0.
IndexOf(cs, ch) ==
    IF \E i \in 1..Len(cs) : cs[i] = ch
    THEN CHOOSE i \in 1..Len(cs) : cs[i] = ch /\ \A j \in 1..(i - 1) : cs[j] # ch
    ELSE 0

\* code.split(sep)[0]
SplitHead(cs, ch) ==
    IF IndexOf(cs, ch) = 0 THEN cs ELSE SubSeq(cs, 1, IndexOf(cs, ch) - 1)

\* The part after the first occurrence of ch (empty when ch does not occur).
SplitTail(cs, ch) ==
    IF IndexOf(cs, ch) = 0 THEN <<>> ELSE SubSeq(cs, IndexOf(cs, ch) + 1, Len(cs))

(***************************************************************************)
(* utils.parse_error_code (collaborator): strips a trailing ":<uri>",      *)
(* keeps an already qualified "ns#Name", qualifies an unqualified name     *)
(* with the given namespace, and returns None when nothing resolvable is   *)
(* left.  code is a Str; namespace is a Str or None.                       *)
(***************************************************************************)
parse_error_code(code, namespace) ==
    LET stripped == SplitHead(code.cs, ":")
    IN  IF Len(code.cs) = 0 THEN NoneV
        ELSE IF IndexOf(stripped, "#") # 0
             THEN IF Len(SplitHead(stripped, "#")) = 0 \/ Len(SplitTail(stripped, "#")) = 0
                  THEN NoneV
                  ELSE ShapeID(SplitHead(stripped, "#"), SplitTail(stripped, "#"))
        ELSE IF Len(stripped) = 0 THEN NoneV
        ELSE IF namespace.t # "str" THEN NoneV
        ELSE IF Len(namespace.cs) = 0 THEN NoneV
        ELSE ShapeID(namespace.cs, stripped)

(***************************************************************************)
(* AWSErrorIdentifier                                                      *)
(***************************************************************************)
_HEADER_KEY == "x-amzn-errortype"

\* error_field.values[0]; IndexError on an empty list
FirstValue(values) ==
    IF Len(values) > 0 THEN Return(values[1]) ELSE Raise(Error("IndexError", <<>>))

\* The result of identify together with the parser calls it made.
Identified(outcome, calls) == [outcome |-> outcome, parser_calls |-> calls]

\* A slip: the last value of the field is parsed instead of the first.
identify_LastValue(op, resp) ==
    IF _HEADER_KEY \notin DOMAIN resp.fields
    THEN Identified(Return(NoneV), <<>>)
    ELSE LET values == resp.fields[_HEADER_KEY]
             code   == IF Len(values) > 0 THEN values[Len(values)] ELSE NoneV
         IN  IF code # NoneV
             THEN Identified(Return(parse_error_code(code, op.namespace)),
                             <<[code |-> code, namespace |-> op.namespace]>>)
             ELSE Identified(Return(NoneV), <<>>)

\* A slip: the length guard on the values list is dropped.
identify_NoLengthGuard(op, resp) ==
    IF _HEADER_KEY \notin DOMAIN resp.fields
    THEN Identified(Return(NoneV), <<>>)
    ELSE LET values == resp.fields[_HEADER_KEY]
             first  == FirstValue(values)
         IN  IF first.kind = "raise"
             THEN Identified(first, <<>>)
             ELSE Identified(Return(parse_error_code(first.value, op.namespace)),
                             <<[code |-> first.value, namespace |-> op.namespace]>>)

identify(op, resp) ==
    IF _HEADER_KEY \notin DOMAIN resp.fields
    THEN Identified(Return(NoneV), <<>>)
    ELSE LET error_field == resp.fields[_HEADER_KEY]
             code == IF Len(error_field) > 0 THEN FirstValue(error_field).value ELSE NoneV
         IN  IF code # NoneV
             THEN Identified(Return(parse_error_code(code, op.namespace)),
                             <<[code |-> code, namespace |-> op.namespace]>>)
             ELSE Identified(Return(NoneV), <<>>)

\* Header values seen on the wire.
ErrorCodes ==
    { Str(<<"E">>),                 \* unqualified
      Str(<<"E", ":", "u">>),       \* unqualified with a URI suffix
      Str(<<"n", "#", "F">>),       \* qualified
      Str(<<>>),                    \* empty header value
      Str(<<":", "u">>) }           \* nothing before the suffix

SeqsUpTo(S, n) == UNION { [1..k -> S] : k \in 0..n }

OtherHeaders == { "content-type" }

\* fields: header name -> list of values
FieldSets ==
    UNION { [ ks -> SeqsUpTo(ErrorCodes, MaxValues) ] : ks \in SUBSET {_HEADER_KEY} }

WithOther(fields, others) ==
    [ k \in (DOMAIN fields) \cup others |->
        IF k \in DOMAIN fields THEN fields[k] ELSE <<Str(<<"j">>)>> ]

Responses ==
    { [fields |-> WithOther(f, o)] : f \in FieldSets, o \in SUBSET OtherHeaders }

Operations == { [namespace |-> Str(<<"a">>)], [namespace |-> Str(<<"b">>)] }

\* The HTTP client framework hands a completed response of an operation over.
Receive ==
    /\ \E resp \in Responses, op \in Operations :
          /\ response' = resp
          /\ operation' = op
    /\ idOutcome' = Pending
    /\ UNCHANGED <<docVars, traitVars>>

\* The framework asks the error identifier for the error shape.
Identify ==
    /\ idOutcome = Pending
    /\ idOutcome' = identify(operation, response)
    /\ UNCHANGED <<response, operation, docVars, traitVars>>

(***************************************************************************)
(* Claims on AWSErrorIdentifier.identify                                   *)
(***************************************************************************)
HeaderValues == response.fields[_HEADER_KEY]

HeaderHasValue ==
    /\ _HEADER_KEY \in DOMAIN response.fields
    /\ Len(HeaderValues) >= 1

\* C1: when the x-amzn-errortype field is present with at least one value,
\* identify returns (as a normal value) exactly parse_error_code(first value,
\* namespace of the operation's schema id), calling the parser once with those
\* arguments; the values after the first do not influence the result.
C1_IdentifyParsesFirstValue ==
    (idOutcome # Pending /\ HeaderHasValue) =>
        /\ idOutcome.outcome =
              Return(parse_error_code(HeaderValues[1], operation.namespace))
        /\ idOutcome.parser_calls =
              << [code |-> HeaderValues[1], namespace |-> operation.namespace] >>
        /\ \A resp \in Responses :
              ( /\ _HEADER_KEY \in DOMAIN resp.fields
                /\ Len(resp.fields[_HEADER_KEY]) >= 1
                /\ resp.fields[_HEADER_KEY][1] = HeaderValues[1] )
              => identify(operation, resp).outcome = idOutcome.outcome

\* C1 witness: two values, the first resolves against the operation namespace,
\* the second would resolve to a different shape.
C1_Witness ==
    /\ idOutcome # Pending
    /\ HeaderHasValue
    /\ HeaderValues = << Str(<<"E", ":", "u">>), Str(<<"n", "#", "F">>) >>
    /\ operation.namespace = Str(<<"b">>)
    /\ idOutcome.outcome = Return(ShapeID(<<"b">>, <<"E">>))

\* C2: when the x-amzn-errortype field is absent, or present with an empty
\* values list, identify returns None as a normal value and makes no call to
\* the error-code parser.
C2_IdentifyUnknownWithoutParsing ==
    ( /\ idOutcome # Pending
      /\ \/ _HEADER_KEY \notin DOMAIN response.fields
         \/ Len(HeaderValues) = 0 )
    => idOutcome = Identified(Return(NoneV), <<>>)

\* C2 witness: the field is present, with an empty values list, among other headers.
C2_Witness ==
    /\ idOutcome # Pending
    /\ _HEADER_KEY \in DOMAIN response.fields
    /\ Len(HeaderValues) = 0
    /\ "content-type" \in DOMAIN response.fields
    /\ idOutcome.outcome = Return(NoneV)

(***************************************************************************)
(* AWSJSONDocument                                                         *)
(***************************************************************************)
\* utils.parse_document_discriminator (collaborator): looks for the "__type"
\* tag of a decoded JSON object and resolves it with parse_error_code,
\* qualifying an unqualified tag with default_namespace.
parse_document_discriminator(doc, default_namespace) ==
    IF doc._value.t # "map" THEN NoneV
    ELSE IF "__type" \notin DOMAIN doc._value.entries THEN NoneV
    ELSE IF doc._value.entries["__type"].t # "str" THEN NoneV
    ELSE parse_error_code(doc._value.entries["__type"], default_namespace)

DiscriminatorError(shape_type) ==
    Error("DiscriminatorError",
          <<"Unable to parse discriminator for ", shape_type, " document.">>)

\* The result of one access: the outcome, the number of parser calls made,
\* and the document instance as the access leaves it.
Accessed(outcome, calls, self) ==
    [outcome |-> outcome, parser_calls |-> calls, self |-> self]

\* A slip: an unresolvable tag falls back to the static schema id.
discriminator_DefaultsToSchema(self) ==
    IF self.shape_type = "STRUCTURE"
    THEN Accessed(Return(self._schema.id), 0, self)
    ELSE LET parsed == parse_document_discriminator(self, self._settings.default_namespace)
         IN  IF parsed = NoneV
             THEN Accessed(Return(self._schema.id), 1, self)
             ELSE Accessed(Return(parsed), 1, self)

\* A slip: the structure shortcut is missing, the payload is always parsed.
discriminator_AlwaysParses(self) ==
    LET parsed == parse_document_discriminator(self, self._settings.default_namespace)
    IN  IF parsed = NoneV
        THEN Accessed(Raise(DiscriminatorError(self.shape_type)), 1, self)
        ELSE Accessed(Return(parsed), 1, self)

\* A slip: the access consumes the tag (pops "__type" from the decoded object).
discriminator_PopsTag(self) ==
    IF self.shape_type = "STRUCTURE"
    THEN Accessed(Return(self._schema.id), 0, self)
    ELSE LET parsed == parse_document_discriminator(self, self._settings.default_namespace)
             popped == IF self._value.t = "map"
                       THEN [self EXCEPT !._value.entries =
                                [k \in (DOMAIN self._value.entries) \ {"__type"} |->
                                    self._value.entries[k]]]
                       ELSE self
         IN  IF parsed = NoneV
             THEN Accessed(Raise(DiscriminatorError(self.shape_type)), 1, popped)
             ELSE Accessed(Return(parsed), 1, popped)

discriminator(self) ==
    IF self.shape_type = "STRUCTURE"
    THEN Accessed(Return(self._schema.id), 0, self)
    ELSE LET parsed == parse_document_discriminator(self, self._settings.default_namespace)
         IN  IF parsed = NoneV
             THEN Accessed(Raise(DiscriminatorError(self.shape_type)), 1, self)
             ELSE Accessed(Return(parsed), 1, self)

\* Decoded JSON objects: with or without a "__type" tag, among other members.
Tags ==
    { Str(<<"T">>),               \* unqualified tag
      Str(<<"n", "#", "U">>),     \* qualified tag
      Str(<<>>),                  \* empty tag
      Int(1) }                    \* a tag that is not a string

JSONObject(keys, tag) ==
    [t |-> "map", entries |-> [k \in keys |-> IF k = "__type" THEN tag ELSE Int(1)]]

JSONObjects == { JSONObject(ks, tag) : ks \in SUBSET {"__type", "x"}, tag \in Tags }

SchemaIds == { ShapeID(<<"a">>, <<"S">>), ShapeID(<<"n">>, <<"U">>) }

DefaultNamespaces == { Str(<<"a">>), NoneV }

Document(shape_type, id, value, ns) ==
    [shape_type |-> shape_type, _schema |-> [id |-> id], _value |-> value,
     _settings |-> [default_namespace |-> ns]]

Documents ==
    { Document(st, id, v, ns) :
        st \in {"STRUCTURE", "UNION", "MAP"}, id \in SchemaIds,
        v \in JSONObjects, ns \in DefaultNamespaces }
    \cup
    { Document("STRING", id, Str(<<"T">>), ns) : id \in SchemaIds, ns \in DefaultNamespaces }

\* The codec constructs the document for a decoded payload position.
Decode ==
    /\ \E d \in Documents : document' = d
    /\ accesses' = <<>>
    /\ lastRead' = NoneV
    /\ UNCHANGED <<idVars, traitVars>>

\* A read of the discriminator property.
AccessDiscriminator ==
    /\ document # NoDocument
    /\ Len(accesses) < MaxAccesses
    /\ LET r == discriminator(document)
       IN  /\ accesses' = Append(accesses, [outcome |-> r.outcome,
                                             parser_calls |-> r.parser_calls,
                                             before |-> document])
           /\ document' = r.self
    /\ UNCHANGED <<lastRead, idVars, traitVars>>

\* Another read operation on the document (its shape type and decoded value).
ReadValue ==
    /\ document # NoDocument
    /\ lastRead' = [shape_type |-> document.shape_type, value |-> document._value]
    /\ UNCHANGED <<document, accesses, idVars, traitVars>>



(***************************************************************************)
(* Claims on AWSJSONDocument.discriminator                                 *)
(***************************************************************************)
ParsedTag(d) == parse_document_discriminator(d, d._settings.default_namespace)

\* C3: on a document whose shape type is not STRUCTURE, every access returns
\* exactly the ShapeID the discriminator parser produced when it produced one,
\* and raises DiscriminatorError, with a message naming the document's shape
\* type, if and only if the parser returned None; no other ShapeID (such as the
\* static schema id) is ever returned.
C3_PolymorphicDiscriminator ==
    \A i \in 1..Len(accesses) :
        LET a == accesses[i]
            d == accesses[i].before
        IN  d.shape_type # "STRUCTURE" =>
              /\ (ParsedTag(d) # NoneV => a.outcome = Return(ParsedTag(d)))
              /\ (ParsedTag(d) = NoneV =>
                    /\ a.outcome = Raise(DiscriminatorError(d.shape_type))
                    /\ \E j \in 1..Len(a.outcome.error.message) :
                          a.outcome.error.message[j] = d.shape_type)
              /\ (a.outcome.kind = "raise" <=> ParsedTag(d) = NoneV)
              /\ a.parser_calls = 1

\* C3 witness: a MAP document without a "__type" member was accessed and the
\* access raised DiscriminatorError.
C3_Witness ==
    /\ Len(accesses) >= 1
    /\ accesses[1].before.shape_type = "MAP"
    /\ "__type" \notin DOMAIN accesses[1].before._value.entries
    /\ accesses[1].outcome.kind = "raise"
    /\ accesses[1].outcome.error.type = "DiscriminatorError"

\* C4: on a document whose shape type is STRUCTURE, every access returns the id
\* of the statically assigned schema whatever the payload holds (a "__type" tag
\* naming another shape, or no tag), without calling the discriminator parser
\* and without raising.
C4_StructureDiscriminator ==
    \A i \in 1..Len(accesses) :
        accesses[i].before.shape_type = "STRUCTURE" =>
            /\ accesses[i].outcome = Return(accesses[i].before._schema.id)
            /\ accesses[i].parser_calls = 0

\* C4 witness: a STRUCTURE document with schema a#S whose payload is tagged
\* "n#U" was accessed and a#S came back.
C4_Witness ==
    /\ Len(accesses) >= 1
    /\ accesses[1].before.shape_type = "STRUCTURE"
    /\ accesses[1].before._schema.id = ShapeID(<<"a">>, <<"S">>)
    /\ "__type" \in DOMAIN accesses[1].before._value.entries
    /\ ParsedTag(accesses[1].before) = ShapeID(<<"n">>, <<"U">>)
    /\ accesses[1].outcome = Return(ShapeID(<<"a">>, <<"S">>))

\* C9: repeated accesses to discriminator on one document instance, interleaved
\* with other reads, all yield the outcome of the first access, and no access
\* changes the document's value, schema or settings.
C9_DiscriminatorIdempotent ==
    /\ \A i \in 1..Len(accesses) :
          /\ accesses[i].outcome = accesses[1].outcome
          /\ accesses[i].before = accesses[1].before
          /\ document = accesses[i].before
    /\ (lastRead # NoneV /\ Len(accesses) >= 1) =>
          /\ lastRead.value = accesses[1].before._value
          /\ lastRead.shape_type = accesses[1].before.shape_type

\* C9 witness: three accesses of a tagged UNION document, with another read in
\* between, each returning the resolved shape.
C9_Witness ==
    /\ Len(accesses) >= 3
    /\ lastRead # NoneV
    /\ document.shape_type = "UNION"
    /\ accesses[3].outcome = Return(ShapeID(<<"a">>, <<"T">>))

\* C9, the failing side: three accesses of an untagged document each raise.
DiscriminatorRaisesEachTime ==
    /\ Len(accesses) >= 3
    /\ \A i \in 1..3 : accesses[i].outcome.kind = "raise"

(***************************************************************************)
(* traits.py                                                               *)
(***************************************************************************)
\* A mapping with string keys; a key that is missing maps to Absent.
TraitKeys == {"http", "eventStreamHttp", "name"}

Mapping(http, eventStreamHttp, name) ==
    [t |-> "map",
     entries |-> [k \in TraitKeys |->
                    IF k = "http" THEN http
                    ELSE IF k = "eventStreamHttp" THEN eventStreamHttp
                    ELSE name]]

EmptyMapping == Mapping(Absent, Absent, Absent)

\* bool(v)
Truthy(v) ==
    IF v.t = "none" THEN FALSE
    ELSE IF v.t = "bool" THEN v.b
    ELSE IF v.t = "int" THEN v.i # 0
    ELSE IF v.t = "str" THEN Len(v.cs) > 0
    ELSE IF v.t = "list" THEN Len(v.items) > 0
    ELSE \E k \in DOMAIN v.entries : v.entries[k] # Absent

\* Mapping.get(key, default)
Get(m, key, default) ==
    IF m.entries[key] = Absent THEN default ELSE m.entries[key]

\* The elements a sequence yields when iterated: the members of a list, the
\* one-character strings of a str.
Iter(v) ==
    IF v.t = "str" THEN [i \in 1..Len(v.cs) |-> Str(<<v.cs[i]>>)] ELSE v.items

HTTP_1_1 == Str(<<"h", "t", "t", "p", "/", "1", ".", "1">>)
H2       == Str(<<"h", "2">>)
H2C      == Str(<<"h", "2", "c">>)

\* What a field of the trait holds: an immutable tuple of its own (ref FALSE),
\* or a reference to the caller's list under key origin (ref TRUE).
OwnTuple(items)  == [ref |-> FALSE, origin |-> "", items |-> items]
Shared(origin)   == [ref |-> TRUE, origin |-> origin, items |-> <<>>]

\* A slip: the caller's list is stored as it is, without the tuple copy.
tuple_Aliased(v, origin) ==
    IF v.t = "list" /\ origin # "" THEN Shared(origin) ELSE OwnTuple(Iter(v))

\* tuple(v): an immutable copy of the elements of v, in order.  origin names
\* the key of the caller's mapping v came from ("" for the literal default).
tuple(v, origin) == OwnTuple(Iter(v))

AssertionError == Raise(Error("AssertionError", <<>>))

Raised(outcome) == [status |-> "raised", error |-> outcome.error]

\* Trait.__init__ (smithy_core): stores the raw value as document_value.
Trait_init(value) == value

RestJson1Trait(value) ==
    LET document_value == IF Truthy(value) THEN value ELSE EmptyMapping
    IN
    IF ~IsMapping(document_value) THEN Raised(AssertionError)
    ELSE
    LET http_versions == Get(document_value, "http", List(<<HTTP_1_1>>))
        http_origin   == IF document_value.entries["http"] = Absent THEN "" ELSE "http"
    IN
    IF ~IsSequence(http_versions) THEN Raised(AssertionError)
    ELSE IF \E i \in 1..Len(Iter(http_versions)) : ~IsStr(Iter(http_versions)[i])
         THEN Raised(AssertionError)
    ELSE
    LET http == tuple(http_versions, http_origin)
        event_stream_http_versions == Get(document_value, "eventStreamHttp", NoneV)
    IN
    IF ~Truthy(event_stream_http_versions)
    THEN [status |-> "ok", http |-> http, event_stream_http |-> http]
    ELSE IF ~IsSequence(event_stream_http_versions) THEN Raised(AssertionError)
    ELSE IF \E i \in 1..Len(Iter(event_stream_http_versions)) :
                ~IsStr(Iter(event_stream_http_versions)[i])
         THEN Raised(AssertionError)
    ELSE [status |-> "ok", http |-> http,
          event_stream_http |-> tuple(event_stream_http_versions, "eventStreamHttp")]

\* self.<name> = value on the frozen dataclass: FrozenInstanceError.
setattr(self, name, value) ==
    [outcome |-> Raise(Error("FrozenInstanceError", <<name>>)), self |-> self]

\* A slip: the type of the "name" entry is not asserted.
SigV4_post_init_NoNameCheck(self) ==
    IF ~IsMapping(self.document_value) THEN Raised(AssertionError)
    ELSE IF self.document_value.entries["name"] = Absent
         THEN Raised(Raise(Error("KeyError", <<"name">>)))
    ELSE self

\* SigV4Trait.__post_init__
SigV4_post_init(self) ==
    IF ~IsMapping(self.document_value) THEN Raised(AssertionError)
    ELSE IF self.document_value.entries["name"] = Absent
         THEN Raised(Raise(Error("KeyError", <<"name">>)))
    ELSE IF ~IsStr(self.document_value.entries["name"]) THEN Raised(AssertionError)
    ELSE self

\* SigV4Trait(value): the inherited constructor, then the validation hook.
SigV4Trait(value) ==
    SigV4_post_init([status |-> "ok", document_value |-> Trait_init(value)])

\* SigV4Trait.name
name(self) == Return(self.document_value.entries["name"])

\* The current value of a field of the trait, as a reader sees it.
Deref(cell) ==
    IF cell.ref THEN Iter(arg.entries[cell.origin]) ELSE cell.items

http              == Deref(trait.http)
event_stream_http == Deref(trait.event_stream_http)

\* Raw trait values handed to RestJson1Trait.
HttpEntries ==
    { Absent, List(<<>>), List(<<H2>>), List(<<H2, HTTP_1_1>>), List(<<Int(0)>>),
      H2, Int(0), NoneV }

EventStreamHttpEntries ==
    { Absent, NoneV, Bool(FALSE), Int(0), Int(1), Str(<<>>), List(<<>>),
      List(<<H2C>>), List(<<H2C, H2>>), List(<<Int(0)>>) }

NonMappings ==
    { Bool(FALSE), Int(0), Str(<<>>), List(<<>>), Str(<<"x">>), List(<<H2>>), Int(1) }

RestJson1Values ==
    {NoneV} \cup NonMappings
    \cup { Mapping(h, e, Absent) : h \in HttpEntries, e \in EventStreamHttpEntries }

SigV4Values ==
    {NoneV, Str(<<"x">>), List(<<>>)}
    \cup { Mapping(h, Absent, n) :
            h \in {Absent, List(<<H2>>)},
            n \in {Absent, NoneV, Int(1), Str(<<>>), Str(<<"s">>), List(<<Str(<<"s">>)>>)} }

\* Model load: RestJson1Trait(value).
ConstructRestJson1 ==
    /\ \E value \in RestJson1Values :
          /\ arg' = value
          /\ trait' = RestJson1Trait(value)
    /\ lastAssign' = Pending
    /\ mutations' = 0
    /\ UNCHANGED <<sigValue, sigv4, sigName, idVars, docVars>>

\* A holder of the trait attempts trait.http = ... or trait.event_stream_http = ...
AssignField ==
    /\ trait.status = "ok"
    /\ \E field \in {"http", "event_stream_http"}, value \in {<<>>, <<H2C>>} :
          LET r == setattr(trait, field, value)
          IN  /\ trait' = r.self
              /\ lastAssign' = r.outcome
    /\ UNCHANGED <<arg, mutations, sigValue, sigv4, sigName, idVars, docVars>>

\* The caller appends to a list it passed in under "http" or "eventStreamHttp".
MutateArg ==
    /\ trait.status = "ok"
    /\ IsMapping(arg)
    /\ mutations < MaxMutations
    /\ \E k \in {"http", "eventStreamHttp"} :
          /\ arg.entries[k].t = "list"
          /\ arg' = [arg EXCEPT !.entries[k] = List(Append(arg.entries[k].items, H2C))]
    /\ mutations' = mutations + 1
    /\ UNCHANGED <<trait, lastAssign, sigValue, sigv4, sigName, idVars, docVars>>

\* Model load: SigV4Trait(value).
ConstructSigV4 ==
    /\ \E value \in SigV4Values :
          /\ sigValue' = value
          /\ sigv4' = SigV4Trait(value)
    /\ sigName' = Pending
    /\ UNCHANGED <<arg, trait, lastAssign, mutations, idVars, docVars>>

\* A read of SigV4Trait.name.
ReadName ==
    /\ sigv4.status = "ok"
    /\ sigName' = name(sigv4)
    /\ UNCHANGED <<arg, trait, lastAssign, mutations, sigValue, sigv4, idVars, docVars>>

(***************************************************************************)
(* Claims on RestJson1Trait and SigV4Trait                                 *)
(***************************************************************************)
Built == trait.status = "ok"

\* The source document has no entry under key k (None and non-mappings have none).
NoEntry(k) == ~IsMapping(arg) \/ arg.entries[k] = Absent

AllStrings(xs) == \A i \in 1..Len(xs) : IsStr(xs[i])

\* C5: every successfully constructed RestJson1Trait has a non-empty http made
\* of strings, equal to ("http/1.1",) when the source document has no "http"
\* entry.  (Violated by the code: an "http" entry that is an empty sequence is
\* stored as the empty tuple.)
C5_HttpNonEmpty ==
    Built =>
        /\ Len(http) >= 1
        /\ AllStrings(http)
        /\ (NoEntry("http") => http = <<HTTP_1_1>>)

\* What does hold of http: strings only, the default exactly when there is no
\* "http" entry, and otherwise the elements of that entry in order.
HttpResolved ==
    (Built /\ mutations = 0) =>
        /\ AllStrings(http)
        /\ (NoEntry("http") => http = <<HTTP_1_1>>)
        /\ (~NoEntry("http") => http = Iter(arg.entries["http"]))

\* The "eventStreamHttp" entry is missing (absent or None) or an empty sequence.
NoEventStreamHttpOrEmpty ==
    \/ NoEntry("eventStreamHttp")
    \/ arg.entries["eventStreamHttp"] = NoneV
    \/ /\ IsSequence(arg.entries["eventStreamHttp"])
       /\ Len(Iter(arg.entries["eventStreamHttp"])) = 0

\* C6: right after a successful construction, event_stream_http equals the
\* resolved http when the source document has no "eventStreamHttp" entry or an
\* empty one, and otherwise equals the elements of that entry in input order.
\* (Violated by the code: an entry that is false or 0 is neither missing nor
\* empty, passes unvalidated and yields the http fallback.)
C6_EventStreamHttpResolved ==
    (Built /\ mutations = 0) =>
        IF NoEventStreamHttpOrEmpty
        THEN event_stream_http = http
        ELSE /\ IsSequence(arg.entries["eventStreamHttp"])
             /\ event_stream_http = Iter(arg.entries["eventStreamHttp"])

\* What does hold of event_stream_http: the fallback is taken exactly when the
\* entry is missing or falsy.
EventStreamHttpResolved ==
    (Built /\ mutations = 0) =>
        IF NoEntry("eventStreamHttp") \/ ~Truthy(arg.entries["eventStreamHttp"])
        THEN event_stream_http = http
        ELSE /\ IsSequence(arg.entries["eventStreamHttp"])
             /\ event_stream_http = Iter(arg.entries["eventStreamHttp"])

SigV4RejectsEmptyMapping == sigValue = EmptyMapping /\ sigv4.status = "raised"

\* C8: RestJson1Trait(value) fails for every value that is present (not None)
\* and is not a mapping.  (Violated by the code: falsy values such as "", 0,
\* False and [] are replaced by an empty mapping before the check.)
C8_NonMappingRejected ==
    (trait.status # "unbuilt" /\ arg # NoneV /\ ~IsMapping(arg)) =>
        trait.status = "raised"

\* What does hold: a non-mapping is rejected exactly when it is truthy.
TruthyNonMappingRejected ==
    (trait.status # "unbuilt" /\ ~IsMapping(arg)) =>
        (trait.status = "raised" <=> Truthy(arg))

\* The fields hold the elements of the entries they were built from, in order.
OrderPreserved ==
    (Built /\ mutations = 0) =>
        /\ ~NoEntry("http") => http = Iter(arg.entries["http"])
        /\ (~NoEntry("eventStreamHttp") /\ Truthy(arg.entries["eventStreamHttp"])) =>
              event_stream_http = Iter(arg.entries["eventStreamHttp"])

\* C10: the fields are built as ordered copies of the input, and once
\* constructed, http and event_stream_http never change: neither an attempted
\* assignment (which fails with FrozenInstanceError) nor a later mutation of
\* the list passed in under "http" or "eventStreamHttp" alters them; only a new
\* construction yields other values.
C10_FieldsImmutable ==
    /\ []OrderPreserved
    /\ [][
           /\ (Built /\ trait'.status = "ok" /\ lastAssign' # Pending) =>
                 (http' = http /\ event_stream_http' = event_stream_http)
           /\ (lastAssign' # Pending) => (lastAssign'.kind = "raise")
           /\ (Built /\ mutations' = mutations + 1) =>
                 (http' = http /\ event_stream_http' = event_stream_http)
          ]_vars

\* C10 witness: the caller appended to the lists it had passed in, an
\* assignment was attempted and refused, and the fields still hold the
\* elements given at construction.
C10_Witness ==
    /\ Built
    /\ mutations = 2
    /\ lastAssign = Raise(Error("FrozenInstanceError", <<"http">>))
    /\ arg.entries["http"] = List(<<H2, H2C>>)
    /\ arg.entries["eventStreamHttp"] = List(<<H2C, H2C>>)
    /\ http = <<H2>>
    /\ event_stream_http = <<H2C>>

Init ==
    /\ response = [fields |-> <<>>]
    /\ operation = [namespace |-> Str(<<"a">>)]
    /\ idOutcome = Pending
    /\ document = NoDocument
    /\ accesses = <<>>
    /\ lastRead = NoneV
    /\ arg = NoneV
    /\ trait = NoTrait
    /\ lastAssign = Pending
    /\ mutations = 0
    /\ sigValue = NoneV
    /\ sigv4 = NoTrait
    /\ sigName = Pending

NextIdentify == Receive \/ Identify

SpecIdentify == Init /\ [][NextIdentify]_vars

NextDocument == Decode \/ AccessDiscriminator \/ ReadValue

SpecDocument == Init /\ [][NextDocument]_vars

NextTraits ==
    ConstructRestJson1 \/ AssignField \/ MutateArg \/ ConstructSigV4 \/ ReadName

SpecTraits == Init /\ [][NextTraits]_vars

Next == NextIdentify \/ NextDocument \/ NextTraits

Spec == Init /\ [][Next]_vars
====
